---- MODULE Spec2Model ----
(***************************************************************************)
(* Model of the CXone Signal API node (nodes/signalApi): the token cache   *)
(* kept on context.signal, the decide-refresh-or-reuse pipeline of the     *)
(* node function, and its four outbound calls.  The node function is an    *)
(* async function: it runs atomically between two awaits, so every action  *)
(* below is the code from one await (or the entry) to the next await (or   *)
(* the return).  Several invocations may be suspended at the same time on  *)
(* the same context object.                                                *)
(***************************************************************************)
EXTENDS Integers, Sequences, FiniteSets, TLC

(* ------------------------------ bounds --------------------------------- *)
\* invocations of the node function in one session
MaxInvocations == 2
\* the wall clock advances TickMs milliseconds at a time, up to MaxNowMs
TickMs == 30500
MaxNowMs == 30500

\* the invocations that can be suspended on the same context at one time:
\* a new invocation takes the first free slot
Procs == {1, 2}

(* --------------------------- value domains ----------------------------- *)
\* JavaScript undefined, for the string-valued fields
Undef == "undefined"
\* a claims object without exp
NoExp == -1
\* tenants the token server may name in a token
Tenants == {"tA", "tB"}

\* token?: string of the cache when it is undefined
NoToken == [parts |-> 0, json |-> FALSE, exp |-> NoExp, tenantId |-> Undef]

\* A compact token string, by what decodeJWT can see of it: the number of
\* dot-separated segments, whether the middle segment is JSON, and the
\* claims exp and tenantId of the payload.
Jwt(e, t) == [parts |-> 3, json |-> TRUE, exp |-> e, tenantId |-> t]

\* a token of each tenant, one that expires within the session, one without
\* exp and one without tenantId
WellFormedTokens ==
    { Jwt(60, "tA"), Jwt(90, "tA"), Jwt(90, "tB"), Jwt(NoExp, "tA"),
      Jwt(90, Undef) }

MalformedTokens ==
    { [parts |-> 2, json |-> FALSE, exp |-> NoExp, tenantId |-> Undef],
      [parts |-> 3, json |-> FALSE, exp |-> NoExp, tenantId |-> Undef] }

\* every non-empty string a token response may carry as access_token
IssuedTokens == WellFormedTokens \cup MalformedTokens

\* error?: of the cache when it is undefined
NoError == [step |-> Undef, message |-> Undef, details |-> Undef]

\* the cache object {} (interface ISignalCache, every field optional)
EmptyCache ==
    [token |-> NoToken, tenantId |-> Undef, apiEndpoint |-> Undef,
     tokenEndpoint |-> Undef, error |-> NoError]

\* config.storageType, the option that selects the sink of Step 8
StorageTypes == {"context", "input"}

\* token_endpoint of the openid-configuration document
TokenEndpointValue == "token_endpoint"

\* api_endpoint the discovery service returns for ?tenantId=<t>
ApiEndpointOf(t) == "api:" \o t

\* How an axios call can end: a body with the field the code reads, a body
\* without it (the code throws an Error that has no response), or a
\* rejection with an HTTP error status (error.response.data is set).
Replies == {"ok", "missing", "http"}

\* The Signal API answers a success status with a body.
SignalReplies == {"ok", "http"}

\* longest config.parameters list handed to Step 6
MaxParams == 10
\* largest exp claim and latest clock (seconds) handed to isTokenExpired
MaxExp == 70
MaxClock == 5

(* ------------------------------ state ---------------------------------- *)
VARIABLES
    hasSignal,      \* context.signal exists
    cache,          \* context.signal (ISignalCache)
    contextStore,   \* context[storageKey]
    inputStore,     \* input[storageKey] (api.addToInput)
    nowMs,          \* Date.now()
    invocations,    \* invocations started so far
    pc,             \* where each invocation is suspended
    token,          \* let token
    tenantId,       \* let tenantId
    apiEndpoint,    \* let apiEndpoint
    tokenEndpoint,  \* let tokenEndpoint
    needNewToken,   \* let needNewToken
    calls,          \* outbound calls issued by the invocation, in order
    start,          \* the cache and the clock as the invocation found them
    overwritten,    \* another invocation assigned signalCache.token meanwhile
    outcome,        \* how the invocation ended
    failedStage,    \* the stage at which the invocation failed
    thrown,         \* the error object the catch block received
    previous,       \* how the invocation that ended last ended
    parameters,     \* config.parameters handed to Step 6
    signalUrl,      \* let signalUrl as Step 6 leaves it
    claims,         \* a decoded token handed to isTokenExpired
    expired         \* what isTokenExpired returned for it

vars == <<hasSignal, cache, contextStore, inputStore, nowMs, invocations,
          pc, token, tenantId, apiEndpoint, tokenEndpoint, needNewToken,
          calls, start, overwritten, outcome, failedStage, thrown, previous,
          parameters, signalUrl, claims, expired>>

shared == <<hasSignal, cache, contextStore, inputStore>>
locals == <<token, tenantId, apiEndpoint, tokenEndpoint, needNewToken>>
history == <<calls, start, overwritten, outcome, failedStage, thrown>>
\* Step 6 and isTokenExpired taken on their own
step6 == <<parameters, signalUrl>>
expiry == <<claims, expired>>

(* --------------------------- pure helpers ------------------------------ *)
\* decodeJWT returns (does not throw): three segments and a JSON payload
Decodes(t) == t.parts = 3 /\ t.json

\* the message decodeJWT throws with
DecodeFailure(t) ==
    IF t.parts # 3 THEN "Failed to decode JWT: Invalid JWT format"
    ELSE "Failed to decode JWT: Unexpected token in JSON"

\* the claims object decodeJWT returns
decodeJWT(t) == [exp |-> t.exp, tenantId |-> t.tenantId]

\* Math.floor(Date.now() / 1000)
CurrentTime(ms) == ms \div 1000

\* the clock-skew buffer of isTokenExpired, in seconds
ExpiryBuffer == 60

\* isTokenExpired without the 60 second buffer
isTokenExpired_NoBuffer(decodedToken, ms) ==
    IF decodedToken.exp = NoExp \/ decodedToken.exp = 0
    THEN TRUE
    ELSE decodedToken.exp < CurrentTime(ms)

\* isTokenExpired with <= for <
isTokenExpired_Inclusive(decodedToken, ms) ==
    IF decodedToken.exp = NoExp \/ decodedToken.exp = 0
    THEN TRUE
    ELSE decodedToken.exp <= CurrentTime(ms) + ExpiryBuffer

isTokenExpired(decodedToken, ms) ==
    IF decodedToken.exp = NoExp \/ decodedToken.exp = 0
    THEN TRUE
    ELSE decodedToken.exp < CurrentTime(ms) + ExpiryBuffer

\* Step 1 with needNewToken cleared before the decode is known to succeed
CachedTokenValid_DecodeUnchecked(t, ms) ==
    /\ t # NoToken
    /\ Decodes(t) => ~isTokenExpired(decodeJWT(t), ms)

\* Step 1: the cached token exists, decodes and is not expired
CachedTokenValid(t, ms) ==
    /\ t # NoToken
    /\ Decodes(t)
    /\ ~isTokenExpired(decodeJWT(t), ms)

\* an Error made by `new Error(message)`: it has no step and no response
NewError(message) == [message |-> message, step |-> Undef, response |-> Undef]

\* the error axios rejects with on an HTTP error status: it has no step
\* and carries response.data
AxiosError(r) ==
    [message |-> "Request failed with status code",
     step |-> Undef,
     response |-> "response.data"]

\* the error a call ends with when it does not deliver the field
CallError(r, missingMessage) ==
    IF r = "missing" THEN NewError(missingMessage) ELSE AxiosError(r)

\* errorDetails of the catch block
ErrorDetails(error) ==
    [step |-> IF error.step # Undef THEN error.step ELSE "unknown",
     message |-> error.message,
     details |-> IF error.response # Undef THEN error.response ELSE "error"]

\* a token write that leaves a token another invocation cached in place
WriteToken_KeepsFirst(c, t) ==
    IF c.token = NoToken THEN [c EXCEPT !.token = t] ELSE c

\* signalCache.token = token
\* a stored token that also wipes the stored error
WriteToken_ClearsError(c, t) == [c EXCEPT !.token = t, !.error = NoError]

WriteToken(c, t) == [c EXCEPT !.token = t]

\* a catch block that also invalidates the cached token
WriteError_DropsToken(c, error) ==
    [c EXCEPT !.error = ErrorDetails(error), !.token = NoToken]

\* a catch block that only logs
WriteError_OnlyLogs(c, error) == c

\* signalCache.error = errorDetails
WriteError(c, error) == [c EXCEPT !.error = ErrorDetails(error)]

\* Step 5 skipped: the signal URL is built from whatever apiEndpoint holds
Step5Pc_SkipsDiscovery(api) == "signal"

\* Step 5 not guarded by the cached apiEndpoint
Step5Pc_AlwaysDiscovers(api) == "cxone"

\* the await the code reaches from Step 5 on
Step5Pc(api) == IF api = Undef THEN "cxone" ELSE "signal"

\* Steps 2 and 3 not guarded by needNewToken
Step2Pc_IgnoresValidity(need, tokEP, api) ==
    IF tokEP = Undef THEN "openid" ELSE "token"

\* Step 2 not guarded by the cached tokenEndpoint
Step2Pc_RediscoversEndpoint(need, tokEP, api) ==
    IF need THEN "openid" ELSE Step5Pc(api)

\* the await the code reaches from Step 2 on
Step2Pc(need, tokEP, api) ==
    IF need /\ tokEP = Undef THEN "openid"
    ELSE IF need THEN "token"
    ELSE Step5Pc(api)

\* the outbound call an invocation suspended at `at` has just issued
CallOf(at) ==
    CASE at = "openid" -> "openid-configuration"
      [] at = "token"  -> "token-request"
      [] at = "cxone"  -> "cxone-configuration"
      [] at = "signal" -> "signal"

NoStart == [cache |-> EmptyCache, at |-> 0, after |-> "none"]
NoThrown == NewError(Undef)

(* ------------------------- Step 6: the signal URL ---------------------- *)
\* A string is the sequence of its pieces: characters, escapes, numerals.
\* config.parameters: absent, or a list of strings
NoParameters == [present |-> FALSE, list |-> << >>]
ParameterValues == {<<"x">>, <<"a", "&", "b">>}
NotBuilt == << >>
API_VERSION == "v33.0"
MaxQueryParams == 9

\* encodeURIComponent: the reserved characters are percent-encoded
EncodeChar(c) ==
    CASE c = "&" -> "%26"
      [] c = "=" -> "%3D"
      [] c = "?" -> "%3F"
      [] OTHER   -> c

encodeURIComponent(value) == [i \in DOMAIN value |-> EncodeChar(value[i])]

\* a slice that keeps one parameter more
Slice_KeepsTen(list, from, to) ==
    SubSeq(list, from + 1, IF Len(list) < to + 1 THEN Len(list) ELSE to + 1)

\* Array.prototype.slice(from, to)
Slice(list, from, to) ==
    SubSeq(list, from + 1, IF Len(list) < to THEN Len(list) ELSE to)

\* the callback of .map: `p${index + 1}=${encodeURIComponent(value)}`
QueryParam(value, index) ==
    <<"p", ToString(index + 1), "=">> \o encodeURIComponent(value)

\* Array.prototype.map hands the callback the value and its zero-based index
MapQueryParam(list) == [i \in DOMAIN list |-> QueryParam(list[i], i - 1)]

\* Array.prototype.join(separator)
RECURSIVE Join(_, _)
Join(items, separator) ==
    IF Len(items) = 0 THEN << >>
    ELSE IF Len(items) = 1 THEN items[1]
    ELSE items[1] \o <<separator>> \o Join(Tail(items), separator)

\* the URL before the query string is added
SignalPath(api, contactId) ==
    <<api, "/incontactapi/services/", API_VERSION, "/interactions/",
      contactId, "/signal">>

\* Step 6
BuildSignalUrl(api, contactId, params) ==
    IF params.present /\ Len(params.list) > 0
    THEN SignalPath(api, contactId) \o <<"?">>
            \o Join(MapQueryParam(Slice(params.list, 0, MaxQueryParams)), "&")
    ELSE SignalPath(api, contactId)

\* isTokenExpired has not been called
NotCalled == [called |-> FALSE, result |-> FALSE]

(* ------------------------------ actions -------------------------------- *)
\* no invocation yet on this context
NodeInit ==
    /\ hasSignal = FALSE
    /\ cache = EmptyCache
    /\ contextStore = Undef
    /\ inputStore = Undef
    /\ nowMs = 0
    /\ invocations = 0
    /\ pc = [p \in Procs |-> "idle"]
    /\ token = [p \in Procs |-> NoToken]
    /\ tenantId = [p \in Procs |-> Undef]
    /\ apiEndpoint = [p \in Procs |-> Undef]
    /\ tokenEndpoint = [p \in Procs |-> Undef]
    /\ needNewToken = [p \in Procs |-> TRUE]
    /\ calls = [p \in Procs |-> << >>]
    /\ start = [p \in Procs |-> NoStart]
    /\ overwritten = [p \in Procs |-> FALSE]
    /\ outcome = [p \in Procs |-> "none"]
    /\ failedStage = [p \in Procs |-> "none"]
    /\ thrown = [p \in Procs |-> NoThrown]
    /\ previous = "none"

Init ==
    /\ NodeInit
    /\ parameters = NoParameters
    /\ signalUrl = NotBuilt
    /\ claims = decodeJWT(NoToken)
    /\ expired = NotCalled

\* No await separates the last statement of an invocation from its return:
\* nothing else runs while an invocation is at its closing brace.
NoneReturning == \A q \in Procs : pc[q] # "done"

\* the catch block: the error is stored in context.signal.error and the
\* function returns; c is the cache as the try block left it
Catch(p, c, error, stage) ==
    /\ hasSignal' = TRUE
    /\ cache' = WriteError(c, error)
    /\ pc' = [pc EXCEPT ![p] = "done"]
    /\ outcome' = [outcome EXCEPT ![p] = "error"]
    /\ failedStage' = [failedStage EXCEPT ![p] = stage]
    /\ thrown' = [thrown EXCEPT ![p] = error]
    /\ previous' = stage

\* the call just answered is issued again
Suspend_ReissuesCall(p, at) ==
    /\ pc' = pc
    /\ calls' = [calls EXCEPT ![p] = Append(@, CallOf(pc[p]))]
    /\ UNCHANGED <<outcome, failedStage, thrown, previous>>

\* the code runs on to the await at `at` and issues its call
Suspend(p, at) ==
    /\ pc' = [pc EXCEPT ![p] = at]
    /\ calls' = [calls EXCEPT ![p] = Append(@, CallOf(at))]
    /\ UNCHANGED <<outcome, failedStage, thrown, previous>>

\* entry of the node function up to its first await: the cache is created
\* and read, Step 1 decides, and the first call that is due is issued
Invoke(p) ==
    /\ NoneReturning
    /\ pc[p] = "idle"
    /\ \A q \in Procs : q < p => pc[q] # "idle"
    /\ invocations < MaxInvocations
    /\ invocations' = invocations + 1
    /\ LET valid == CachedTokenValid(cache.token, nowMs)
           tid == IF valid THEN decodeJWT(cache.token).tenantId ELSE cache.tenantId
           at == Step2Pc(~valid, cache.tokenEndpoint, cache.apiEndpoint)
       IN /\ hasSignal' = TRUE
          /\ token' = [token EXCEPT ![p] = cache.token]
          /\ tenantId' = [tenantId EXCEPT ![p] = tid]
          /\ apiEndpoint' = [apiEndpoint EXCEPT ![p] = cache.apiEndpoint]
          /\ tokenEndpoint' = [tokenEndpoint EXCEPT ![p] = cache.tokenEndpoint]
          /\ needNewToken' = [needNewToken EXCEPT ![p] = ~valid]
          /\ start' = [start EXCEPT ![p] =
                          [cache |-> cache, at |-> CurrentTime(nowMs),
                           after |-> previous]]
          /\ overwritten' = [overwritten EXCEPT ![p] = FALSE]
          /\ pc' = [pc EXCEPT ![p] = at]
          /\ calls' = [calls EXCEPT ![p] = <<CallOf(at)>>]
    /\ UNCHANGED <<cache, contextStore, inputStore, nowMs, outcome,
                   failedStage, thrown, previous, step6, expiry>>

\* Step 2 after `await axios.get(openidConfigUrl)`
OpenidReply(p, r) ==
    /\ NoneReturning
    /\ pc[p] = "openid"
    /\ IF r = "ok"
       THEN /\ tokenEndpoint' = [tokenEndpoint EXCEPT ![p] = TokenEndpointValue]
            /\ cache' = [cache EXCEPT !.tokenEndpoint = TokenEndpointValue]
            /\ Suspend(p, "token")
            /\ UNCHANGED hasSignal
       ELSE /\ Catch(p, cache,
                     CallError(r, "Failed to retrieve token_endpoint from OpenID configuration"),
                     "openid-configuration")
            /\ UNCHANGED <<tokenEndpoint, calls>>
    /\ UNCHANGED <<contextStore, inputStore, nowMs, invocations, token,
                   tenantId, apiEndpoint, needNewToken, start, overwritten,
                   step6, expiry>>

\* the other invocations in flight see signalCache.token assigned under them
TokenAssignedBy(p) ==
    [q \in Procs |-> IF q # p /\ pc[q] # "idle" THEN TRUE ELSE overwritten[q]]

\* Steps 3 and 4 after `await axios.post(tokenEndpoint, ...)`
TokenReply(p, r, t) ==
    /\ NoneReturning
    /\ pc[p] = "token"
    /\ IF r = "ok"
       THEN /\ token' = [token EXCEPT ![p] = t]
            /\ overwritten' = TokenAssignedBy(p)
            /\ IF Decodes(t)
               THEN /\ tenantId' = [tenantId EXCEPT ![p] = decodeJWT(t).tenantId]
                    /\ cache' = [WriteToken(cache, t) EXCEPT
                                    !.tenantId = decodeJWT(t).tenantId]
                    /\ Suspend(p, Step5Pc(apiEndpoint[p]))
                    /\ UNCHANGED hasSignal
               ELSE /\ Catch(p, WriteToken(cache, t), NewError(DecodeFailure(t)),
                             "token-decode")
                    /\ UNCHANGED <<tenantId, calls>>
       ELSE /\ Catch(p, cache,
                     CallError(r, "Failed to retrieve access token from response"),
                     "token-request")
            /\ UNCHANGED <<token, overwritten, tenantId, calls>>
    /\ UNCHANGED <<contextStore, inputStore, nowMs, invocations, apiEndpoint,
                   tokenEndpoint, needNewToken, start, step6, expiry>>

\* Step 5 after `await axios.get(discoveryUrl)`, then Step 6 and the call of
\* Step 7
CxoneReply(p, r) ==
    /\ NoneReturning
    /\ pc[p] = "cxone"
    /\ IF r = "ok"
       THEN /\ apiEndpoint' = [apiEndpoint EXCEPT ![p] = ApiEndpointOf(tenantId[p])]
            /\ cache' = [cache EXCEPT !.apiEndpoint = ApiEndpointOf(tenantId[p])]
            /\ Suspend(p, "signal")
            /\ UNCHANGED hasSignal
       ELSE /\ Catch(p, cache,
                     CallError(r, "Failed to retrieve api_endpoint from discovery service"),
                     "api-endpoint")
            /\ UNCHANGED <<apiEndpoint, calls>>
    /\ UNCHANGED <<contextStore, inputStore, nowMs, invocations, token,
                   tenantId, tokenEndpoint, needNewToken, start, overwritten,
                   step6, expiry>>

\* signalResponse.data || signalResponse
ResponseData(r) == IF r = "ok" THEN "signalResponse.data" ELSE "signalResponse"

\* Step 8: the response goes to the sink config.storageType selects
StoreResponse(storageType, data) ==
    IF storageType = "context"
    THEN contextStore' = data /\ UNCHANGED inputStore
    ELSE inputStore' = data /\ UNCHANGED contextStore

\* Step 8 after `await axios.post(signalUrl, ...)`
SignalReply(p, r, storageType) ==
    /\ NoneReturning
    /\ pc[p] = "signal"
    /\ IF r = "ok"
       THEN /\ StoreResponse(storageType, ResponseData(r))
            /\ pc' = [pc EXCEPT ![p] = "done"]
            /\ outcome' = [outcome EXCEPT ![p] = "ok"]
            /\ previous' = "ok"
            /\ UNCHANGED <<hasSignal, cache, failedStage, thrown>>
       ELSE /\ Catch(p, cache, AxiosError(r), "signal")
            /\ UNCHANGED <<contextStore, inputStore>>
    /\ UNCHANGED <<nowMs, invocations, token, tenantId, apiEndpoint,
                   tokenEndpoint, needNewToken, calls, start, overwritten,
                   step6, expiry>>

\* the closing brace of the node function: its variables go out of scope
Return(p) ==
    /\ pc[p] = "done"
    /\ pc' = [pc EXCEPT ![p] = "idle"]
    /\ token' = [token EXCEPT ![p] = NoToken]
    /\ tenantId' = [tenantId EXCEPT ![p] = Undef]
    /\ apiEndpoint' = [apiEndpoint EXCEPT ![p] = Undef]
    /\ tokenEndpoint' = [tokenEndpoint EXCEPT ![p] = Undef]
    /\ needNewToken' = [needNewToken EXCEPT ![p] = TRUE]
    /\ calls' = [calls EXCEPT ![p] = << >>]
    /\ start' = [start EXCEPT ![p] = NoStart]
    /\ overwritten' = [overwritten EXCEPT ![p] = FALSE]
    /\ outcome' = [outcome EXCEPT ![p] = "none"]
    /\ failedStage' = [failedStage EXCEPT ![p] = "none"]
    /\ thrown' = [thrown EXCEPT ![p] = NoThrown]
    /\ UNCHANGED <<shared, nowMs, invocations, previous, step6, expiry>>

\* Date.now() moves on
Tick ==
    /\ NoneReturning
    /\ nowMs + TickMs <= MaxNowMs
    /\ nowMs' = nowMs + TickMs
    /\ UNCHANGED <<shared, invocations, pc, locals, history, previous,
                   step6, expiry>>

Next ==
    \/ \E p \in Procs : Invoke(p)
    \/ \E p \in Procs, r \in Replies : OpenidReply(p, r)
    \/ \E p \in Procs, r \in Replies, t \in IssuedTokens : TokenReply(p, r, t)
    \/ \E p \in Procs, r \in Replies : CxoneReply(p, r)
    \/ \E p \in Procs, r \in SignalReplies, st \in StorageTypes : SignalReply(p, r, st)
    \/ \E p \in Procs : Return(p)
    \/ Tick

Spec == Init /\ [][Next]_vars

(* ---------------- invocations that follow one another ------------------ *)
\* the host runs one invocation to its end before it starts the next
NextSeq ==
    \/ Invoke(1)
    \/ \E r \in Replies : OpenidReply(1, r)
    \/ \E r \in Replies, t \in IssuedTokens : TokenReply(1, r, t)
    \/ \E r \in Replies : CxoneReply(1, r)
    \/ \E r \in SignalReplies, st \in StorageTypes : SignalReply(1, r, st)
    \/ Return(1)
    \/ Tick

SpecSeq == Init /\ [][NextSeq]_vars

(* ------------------- every outbound call is answered ------------------- *)
\* the answer to the call the invocation in slot p is suspended on
Reply(p) ==
    \/ \E r \in Replies : OpenidReply(p, r)
    \/ \E r \in Replies, t \in IssuedTokens : TokenReply(p, r, t)
    \/ \E r \in Replies : CxoneReply(p, r)
    \/ \E r \in SignalReplies, st \in StorageTypes : SignalReply(p, r, st)

\* axios settles every promise the node awaits, and the event loop resumes
\* the function; a function at its closing brace returns
SpecSeqLive == SpecSeq /\ WF_vars(Reply(1)) /\ WF_vars(Return(1))

(* --------------------- Step 6 taken on its own ------------------------- *)
RECURSIVE ListsOf(_)
\* the parameter lists of length n
ListsOf(n) ==
    IF n = 0 THEN {<< >>}
    ELSE {Append(l, v) : l \in ListsOf(n - 1), v \in ParameterValues}

ParameterInputs ==
    {NoParameters} \cup
    {[present |-> TRUE, list |-> l] : l \in UNION {ListsOf(n) : n \in 0..MaxParams}}

InitStep6 ==
    /\ NodeInit
    /\ parameters \in ParameterInputs
    /\ signalUrl = NotBuilt
    /\ claims = decodeJWT(NoToken)
    /\ expired = NotCalled

Step6 ==
    /\ signalUrl = NotBuilt
    /\ signalUrl' = BuildSignalUrl(ApiEndpointOf("tA"), "contactId", parameters)
    /\ UNCHANGED <<shared, nowMs, invocations, pc, locals, history, previous,
                   parameters, expiry>>

SpecStep6 == InitStep6 /\ [][Step6]_vars

(* ------------------- isTokenExpired taken on its own ------------------- *)
ClaimInputs == {[exp |-> e, tenantId |-> "tA"] : e \in {NoExp} \cup 0..MaxExp}

InitExpiry ==
    /\ NodeInit
    /\ parameters = NoParameters
    /\ signalUrl = NotBuilt
    /\ claims \in ClaimInputs
    /\ expired = NotCalled

\* the clock is read inside isTokenExpired
CheckExpiry ==
    /\ ~expired.called
    /\ expired' = [called |-> TRUE, result |-> isTokenExpired(claims, nowMs)]
    /\ UNCHANGED <<shared, nowMs, invocations, pc, locals, history, previous,
                   step6, claims>>

\* Date.now() moves on by half a second
ClockTick ==
    /\ ~expired.called
    /\ nowMs + 500 <= MaxClock * 1000
    /\ nowMs' = nowMs + 500
    /\ UNCHANGED <<shared, invocations, pc, locals, history, previous,
                   step6, expiry>>

NextExpiry == CheckExpiry \/ ClockTick

SpecExpiry == InitExpiry /\ [][NextExpiry]_vars

(* ------------------------- observation helpers ------------------------- *)
\* the invocation in slot p has issued the call c
Issued(p, c) == \E i \in DOMAIN calls[p] : calls[p][i] = c

\* the invocation in slot p has started and its variables are still in scope
Active(p) == pc[p] # "idle"

\* the invocation in slot p has just ended with the result stored
Succeeded(p) == pc[p] = "done" /\ outcome[p] = "ok"

\* the invocation in slot p has just ended in the catch block
Failed(p) == pc[p] = "done" /\ outcome[p] = "error"

\* no other invocation assigned signalCache.token since p started
Undisturbed(p) == ~overwritten[p]

\* the token decodes and its exp is at least 60 seconds after second `at`
UsableAt(t, at) ==
    /\ Decodes(t)
    /\ decodeJWT(t).exp # NoExp
    /\ decodeJWT(t).exp >= at + 60

\* the invocation in slot p started with a cached token that decodes and
\* is not expired
StartedValid(p) == Active(p) /\ UsableAt(start[p].cache.token, start[p].at)

(* -------------------------------- C1 ----------------------------------- *)
\* C1 as stated: an invocation that starts with a cached token that decodes
\* and is not expired issues no discovery call (neither openid-configuration
\* nor cxone-configuration) and no token request.
C1_NoDiscoveryNoTokenRequest ==
    \A p \in Procs :
        StartedValid(p) =>
            /\ ~Issued(p, "openid-configuration")
            /\ ~Issued(p, "cxone-configuration")
            /\ ~Issued(p, "token-request")

\* C1 amended: an invocation that starts with a cached token that decodes
\* and is not expired issues no openid-configuration lookup and no token
\* request; it issues the cxone-configuration lookup exactly when the cache
\* held no apiEndpoint when it started.
C1_NoRefreshWithValidToken ==
    \A p \in Procs :
        StartedValid(p) =>
            /\ ~needNewToken[p]
            /\ ~Issued(p, "openid-configuration")
            /\ ~Issued(p, "token-request")
            /\ Issued(p, "cxone-configuration")
                  <=> start[p].cache.apiEndpoint = Undef

\* a valid cached token was reused with no apiEndpoint cached: the only
\* calls of the finished invocation are the api-endpoint lookup and the signal
C1_Witness ==
    \E p \in Procs :
        /\ Succeeded(p)
        /\ StartedValid(p)
        /\ calls[p] = <<"cxone-configuration", "signal">>

(* -------------------------------- C2 ----------------------------------- *)
\* the calls a, b, c were issued by p in this order
InOrder(p, a, b, c) ==
    \E i, j, k \in DOMAIN calls[p] :
        /\ i < j /\ j < k
        /\ calls[p][i] = a /\ calls[p][j] = b /\ calls[p][k] = c

\* C2 as stated: an invocation that starts from an empty cache and in which
\* every network call succeeds issues openid-configuration, then the token
\* request, then the signal call, and afterwards the cache holds token,
\* tenantId and tokenEndpoint.
C2_EmptyCacheOrderAndCache ==
    \A p \in Procs :
        (Succeeded(p) /\ start[p].cache = EmptyCache) =>
            /\ InOrder(p, "openid-configuration", "token-request", "signal")
            /\ cache.token # NoToken
            /\ cache.tenantId # Undef
            /\ cache.tokenEndpoint # Undef

C4_NoMutualExclusion ==
    [][\A p \in Procs :
          /\ (pc[p] = "idle" /\ pc'[p] # "idle" /\ needNewToken'[p])
                => pc'[p] \in {"openid", "token"}
          /\ (pc[p] = "token" /\ token'[p] # token[p])
                => cache'.token = token'[p]
      ]_vars

\* two overlapping invocations found the same cache without a usable token,
\* each issued its own token request, the token was written twice and the
\* later write replaced the token the other one cached
C4_Witness ==
    /\ pc[1] \in {"cxone", "signal"}
    /\ pc[2] \in {"cxone", "signal"}
    /\ needNewToken[1] /\ needNewToken[2]
    /\ Issued(1, "token-request") /\ Issued(2, "token-request")
    /\ overwritten[1] /\ overwritten[2]
    /\ token[1] # token[2]
    /\ cache.token = token[1]

(* -------------------------------- C5 ----------------------------------- *)
\* C5 as stated: every bearer token sent in a signal call decodes and has
\* an exp at least 60 seconds after the time it was checked in that
\* invocation, for a reused cached token and for a freshly issued one (no
\* check is earlier than the start of the invocation, so the exp is then at
\* least 60 seconds after that start).
C5_BearerUsable ==
    \A p \in Procs :
        Issued(p, "signal") => UsableAt(token[p], start[p].at)

\* C5 amended: every bearer token sent in a signal call decodes; a reused
\* cached token also has an exp at least 60 seconds after the time of its
\* check, whereas the exp of a freshly issued token is not checked.
C5_BearerDecodesReusedUsable ==
    \A p \in Procs :
        Issued(p, "signal") =>
            /\ Decodes(token[p])
            /\ ~needNewToken[p] =>
                  /\ token[p] = start[p].cache.token
                  /\ UsableAt(token[p], start[p].at)

\* a cached token whose exp is exactly 60 seconds after the check is sent
C5_Witness ==
    \E p \in Procs :
        /\ pc[p] = "signal"
        /\ ~needNewToken[p]
        /\ decodeJWT(token[p]).exp = start[p].at + 60

(* -------------------------------- C6 ----------------------------------- *)
\* C6 as stated: in every reachable cache state the cached tenantId, when
\* set, is the tenantId claim of the cached token.
C6_TenantIdOfCachedToken ==
    cache.tenantId # Undef =>
        /\ Decodes(cache.token)
        /\ decodeJWT(cache.token).tenantId = cache.tenantId

(* -------------------------------- C7 ----------------------------------- *)
\* the invocation ended because the token response had no access_token
NoAccessToken(p) ==
    /\ Failed(p)
    /\ thrown[p] = NewError("Failed to retrieve access token from response")

StageOf(at) ==
    CASE at = "openid" -> {"openid-configuration"}
      [] at = "token"  -> {"token-request", "token-decode"}
      [] at = "cxone"  -> {"api-endpoint"}
      [] at = "signal" -> {"signal"}
      [] OTHER -> {}

\* C8: every failure that reaches the catch block ends the invocation there
\* and then (no further call is issued), is written into the cache's error
\* field as one object with step, message and details, and the invocation
\* returns with neither storage sink written.
C8_FailureStoredNotThrown ==
    [][\A p \in Procs :
          (pc[p] # "done" /\ pc'[p] = "done" /\ outcome'[p] = "error") =>
              /\ failedStage'[p] \in StageOf(pc[p])
              /\ calls'[p] = calls[p]
              /\ cache'.error.step # Undef
              /\ cache'.error.message = thrown'[p].message
              /\ cache'.error.message # Undef
              /\ cache'.error.details # Undef
              /\ contextStore' = contextStore
              /\ inputStore' = inputStore
      ]_vars

\* an invocation failed at its last call, after an earlier one had stored
\* a result: the error is in the cache and the sinks hold the old result
C8_Witness ==
    \E p \in Procs :
        /\ Failed(p)
        /\ failedStage[p] = "signal"
        /\ cache.error = ErrorDetails(thrown[p])
        /\ contextStore # Undef

(* -------------------------------- C9 ----------------------------------- *)
\* C9 as stated: the step of the error written to the cache names the
\* stage that failed.
C9_StepNamesStage ==
    \A p \in Procs :
        Failed(p) =>
            /\ cache.error.step = failedStage[p]
            /\ cache.error.step # "unknown"

(* -------------------------------- C10 ---------------------------------- *)
\* C10 as stated: a token that fails to decode is never fatal to an
\* invocation, whether it was read from the cache or just issued.
C10_DecodeNeverFatal ==
    \A p \in Procs :
        Failed(p) => failedStage[p] # "token-decode"

\* C10 amended: a cached token that fails to decode is never fatal: the
\* failure is swallowed and the invocation goes on to request a new token.
\* A just-issued token that fails to decode ends the invocation in the
\* catch block, after the token has been cached.
C10_CachedDecodeFailureRefreshes ==
    \A p \in Procs :
        /\ (Active(p) /\ start[p].cache.token # NoToken
                      /\ ~Decodes(start[p].cache.token)) =>
              /\ needNewToken[p]
              /\ calls[p][1] \in {"openid-configuration", "token-request"}
        /\ (Failed(p) /\ failedStage[p] = "token-decode") =>
              /\ ~Decodes(token[p])
              /\ Issued(p, "token-request")
              /\ Undisturbed(p) => cache.token = token[p]

\* an invocation found a cached token that does not decode and has issued
\* the token request for a new one
C10_Witness ==
    \E p \in Procs :
        /\ pc[p] = "token"
        /\ start[p].cache.token \in MalformedTokens

(* ------------------------------- C11 ----------------------------------- *)
\* C11: an invocation that follows one which failed at the api-endpoint
\* lookup, and that finds the cached token still valid, issues no openid
\* lookup and no token request: its first call is the api-endpoint lookup.
C11_RetryOnlyApiEndpoint ==
    \A p \in Procs :
        (StartedValid(p) /\ start[p].after = "api-endpoint") =>
            /\ ~Issued(p, "openid-configuration")
            /\ ~Issued(p, "token-request")
            /\ calls[p][1] = "cxone-configuration"

\* the retry found the api endpoint and sent the signal
C11_Witness ==
    \E p \in Procs :
        /\ StartedValid(p)
        /\ start[p].after = "api-endpoint"
        /\ Succeeded(p)
        /\ calls[p] = <<"cxone-configuration", "signal">>

(* ------------------------------- C12 ----------------------------------- *)
\* C12: when an invocation discovers the token endpoint and then fails at
\* the token request, the cache keeps tokenEndpoint after the failure, and
\* the invocation that follows starts with the token request, without an
\* openid lookup.
C12_PartialRefreshPersists ==
    \A p \in Procs :
        /\ (Failed(p) /\ failedStage[p] = "token-request"
                /\ Issued(p, "openid-configuration")) =>
              cache.tokenEndpoint = TokenEndpointValue
        /\ (Active(p) /\ start[p].after = "token-request") =>
              /\ start[p].cache.tokenEndpoint = TokenEndpointValue
              /\ calls[p][1] = "token-request"
              /\ ~Issued(p, "openid-configuration")

\* the first invocation found nothing cached, discovered the endpoint and
\* failed at the token request; the next one got its token and went on
C12_Witness ==
    \E p \in Procs :
        /\ start[p].after = "token-request"
        /\ start[p].cache.token = NoToken
        /\ start[p].cache.error.message
              = "Failed to retrieve access token from response"
        /\ Succeeded(p)
        /\ calls[p] = <<"token-request", "cxone-configuration", "signal">>

(* ------------------------------- C13 ----------------------------------- *)
\* a step in which the invocation in slot p gets the answer of lookup `at`
\* and goes on
LookupSucceeds(p, at) == pc[p] = at /\ pc'[p] # at /\ pc'[p] # "done"

\* C13: across invocations that follow one another, a tokenEndpoint or an
\* apiEndpoint that is set never changes and is never unset, and a discovery
\* lookup succeeds only while the cache holds no endpoint of its kind, hence
\* at most once per cache.
C13_EndpointsSetOnce ==
    [][/\ cache.tokenEndpoint # Undef =>
             cache'.tokenEndpoint = cache.tokenEndpoint
       /\ cache.apiEndpoint # Undef =>
             cache'.apiEndpoint = cache.apiEndpoint
       /\ \A p \in Procs :
             /\ LookupSucceeds(p, "openid") =>
                   cache.tokenEndpoint = Undef /\ cache'.tokenEndpoint # Undef
             /\ LookupSucceeds(p, "cxone") =>
                   cache.apiEndpoint = Undef /\ cache'.apiEndpoint # Undef]_vars

\* an invocation that found both endpoints cached refreshed its token and
\* sent the signal, and the endpoints are the ones it found
C13_Witness ==
    \E p \in Procs :
        /\ start[p].cache.tokenEndpoint # Undef
        /\ start[p].cache.apiEndpoint # Undef
        /\ needNewToken[p]
        /\ Succeeded(p)
        /\ cache.tokenEndpoint = start[p].cache.tokenEndpoint
        /\ cache.apiEndpoint = start[p].cache.apiEndpoint

(* ------------------------------- C14 ----------------------------------- *)
\* the invocation in slot p has got as far as Step 5
ReachedStep5(p) ==
    \/ pc[p] \in {"cxone", "signal"}
    \/ Succeeded(p)
    \/ Failed(p) /\ failedStage[p] \in {"api-endpoint", "signal"}

\* C14: an invocation issues the openid lookup exactly when it needs a new
\* token and found no tokenEndpoint cached, and, once it has reached Step 5,
\* it has issued the cxone lookup exactly when it found no apiEndpoint
\* cached, whether or not it refreshed the token.
C14_LookupGuards ==
    \A p \in Procs :
        Active(p) =>
            /\ Issued(p, "openid-configuration") <=>
                  (~StartedValid(p) /\ start[p].cache.tokenEndpoint = Undef)
            /\ ReachedStep5(p) =>
                  (Issued(p, "cxone-configuration") <=>
                      start[p].cache.apiEndpoint = Undef)

\* a refresh with both endpoints cached: neither lookup is issued
C14_Witness ==
    \E p \in Procs :
        /\ Active(p)
        /\ ~StartedValid(p)
        /\ start[p].cache.tokenEndpoint # Undef
        /\ start[p].cache.apiEndpoint # Undef
        /\ Succeeded(p)
        /\ calls[p] = <<"token-request", "signal">>

(* ------------------------------- C15 ----------------------------------- *)
\* C15: an invocation that has issued the cxone lookup or the signal call
\* holds a token and a tenantId that is not undefined.
C15_LookupHasTenantId ==
    \A p \in Procs :
        (Issued(p, "cxone-configuration") \/ Issued(p, "signal")) =>
            /\ token[p] # NoToken
            /\ tenantId[p] # Undef

(* ------------------------------- C16 ----------------------------------- *)
\* the step in which the invocation in slot p ends in the catch block
FailsNow(p) == pc[p] # "done" /\ pc'[p] = "done" /\ outcome'[p] = "error"

\* C16: the step in which an invocation fails stores that invocation's
\* error in the cache, and every other step of an invocation, so every step
\* of a successful one, leaves the cached error as it was.
C16_ErrorOnlyByFailure ==
    [][\A p \in Procs :
          /\ FailsNow(p) =>
                /\ cache'.error = ErrorDetails(thrown'[p])
                /\ cache'.error.message = thrown'[p].message
                /\ cache'.error # NoError
          /\ (pc'[p] # pc[p] /\ ~FailsNow(p)) => cache'.error = cache.error]_vars

\* a success after a failure: the cache still holds the earlier error
C16_Witness ==
    \E p \in Procs :
        /\ Succeeded(p)
        /\ start[p].after \notin {"none", "ok"}
        /\ start[p].cache.error # NoError
        /\ cache.error = start[p].cache.error

(* ------------------------------- C17 ----------------------------------- *)
InFlight == {"openid", "token", "cxone", "signal"}

\* the place of a call in the pipeline
StageRank(at) ==
    CASE at = "openid" -> 1
      [] at = "token"  -> 2
      [] at = "cxone"  -> 3
      [] at = "signal" -> 4
      [] at = "done"   -> 5

\* the step in which the invocation in slot p ends with its result stored
SucceedsNow(p) == pc[p] # "done" /\ pc'[p] = "done" /\ outcome'[p] = "ok"

\* C17: no call is retried.  Every answer moves the invocation to a later
\* call or ends it, so each of the four calls is issued at most once; a
\* failed call ends the invocation at once; the invocation ends either with
\* the result in one sink and the cache untouched, or with its error in the
\* cache and the sinks untouched; and when every call is answered, every
\* invocation ends.
C17_NoRetryAndTerminates ==
    /\ [][\A p \in Procs :
             /\ (pc[p] \in InFlight /\ pc'[p] # pc[p]) =>
                   StageRank(pc'[p]) > StageRank(pc[p])
             /\ (pc[p] # "idle" /\ calls'[p] # calls[p] /\ pc'[p] # "idle") =>
                   /\ Len(calls'[p]) = Len(calls[p]) + 1
                   /\ SubSeq(calls'[p], 1, Len(calls[p])) = calls[p]
                   /\ ~Issued(p, calls'[p][Len(calls'[p])])
             /\ (pc[p] \in InFlight /\ pc'[p] = "done") =>
                   \/ /\ SucceedsNow(p)
                      /\ pc[p] = "signal"
                      /\ cache' = cache
                      /\ \/ contextStore' # Undef /\ inputStore' = inputStore
                         \/ inputStore' # Undef /\ contextStore' = contextStore
                   \/ /\ FailsNow(p)
                      /\ calls'[p] = calls[p]
                      /\ cache'.error = ErrorDetails(thrown'[p])
                      /\ contextStore' = contextStore
                      /\ inputStore' = inputStore]_vars
    /\ \A p \in Procs : (pc[p] \in InFlight) ~> (pc[p] = "done")

\* an invocation issued all four calls, each once, and the last one failed
C17_Witness ==
    \E p \in Procs :
        /\ Failed(p)
        /\ failedStage[p] = "signal"
        /\ calls[p] = <<"openid-configuration", "token-request",
                        "cxone-configuration", "signal">>
        /\ cache.error = ErrorDetails(thrown[p])

(* ------------------------------- C18 ----------------------------------- *)
\* what a server does with a query string: cut it at every separator
RECURSIVE SplitAt(_, _)
SplitAt(str, separator) ==
    IF \A i \in DOMAIN str : str[i] # separator THEN <<str>>
    ELSE LET k == CHOOSE i \in DOMAIN str :
                      /\ str[i] = separator
                      /\ \A j \in 1..(i - 1) : str[j] # separator
         IN <<SubSeq(str, 1, k - 1)>>
                \o SplitAt(SubSeq(str, k + 1, Len(str)), separator)

\* decodeURIComponent
DecodeChar(c) ==
    CASE c = "%26" -> "&"
      [] c = "%3D" -> "="
      [] c = "%3F" -> "?"
      [] OTHER     -> c

DecodeURIComponent(str) == [i \in DOMAIN str |-> DecodeChar(str[i])]

\* what follows the path in the URL Step 6 built
QueryOf(url) == SubSeq(url, 7, Len(url))

\* C18: the URL Step 6 builds has no query string when the parameter list
\* is absent or empty; otherwise its query string has one field per
\* parameter among the first 9, in order, the i-th with key p<i> and the
\* i-th parameter as its value, and nothing for a parameter beyond the 9th.
C18_QueryFromFirstNine ==
    signalUrl # NotBuilt =>
        LET n == Len(parameters.list)
            query == QueryOf(signalUrl)
        IN /\ SubSeq(signalUrl, 1, 6) = SignalPath(ApiEndpointOf("tA"), "contactId")
           /\ (~parameters.present \/ n = 0) => query = << >>
           /\ (parameters.present /\ n > 0) =>
                 /\ query[1] = "?"
                 /\ LET fields == SplitAt(Tail(query), "&")
                    IN /\ Len(fields) = (IF n < 9 THEN n ELSE 9)
                       /\ \A i \in DOMAIN fields :
                             LET kv == SplitAt(fields[i], "=")
                             IN /\ Len(kv) = 2
                                /\ kv[1] = <<"p", ToString(i)>>
                                /\ DecodeURIComponent(kv[2]) = parameters.list[i]

\* ten parameters, the last of them dropped
C18_Witness ==
    /\ signalUrl # NotBuilt
    /\ parameters.present
    /\ Len(parameters.list) = 10
    /\ parameters.list[9] = <<"a", "&", "b">>
    /\ parameters.list[10] = <<"a", "&", "b">>
    /\ Len(SplitAt(Tail(QueryOf(signalUrl)), "&")) = 9

(* ------------------------------- C19 ----------------------------------- *)
\* C19: isTokenExpired returns true for claims without exp; otherwise it
\* returns true exactly when exp is below the current time in whole epoch
\* seconds plus 60, so false when exp equals that sum or exceeds it.
C19_ExpiredBelowNowPlus60 ==
    expired.called =>
        LET nowSeconds == (nowMs - (nowMs % 1000)) \div 1000
        IN /\ claims.exp = NoExp => expired.result
           /\ claims.exp # NoExp =>
                 (expired.result <=> claims.exp < nowSeconds + 60)
           /\ claims.exp >= nowSeconds + 60 => ~expired.result

\* exp is exactly now + 60, half a second into the second
C19_Witness ==
    /\ expired.called
    /\ nowMs = 3500
    /\ claims.exp = 63
    /\ ~expired.result

(* ------------------------------- C20 ----------------------------------- *)
\* C20: when invocations follow one another, the API endpoint an invocation
\* sends its signal call to is the endpoint discovered for the tenantId of
\* the bearer token it sends, whenever that token names a tenant.
C20_EndpointOfBearerTenant ==
    \A p \in Procs :
        (Issued(p, "signal") /\ decodeJWT(token[p]).tenantId \in Tenants) =>
            apiEndpoint[p] = ApiEndpointOf(decodeJWT(token[p]).tenantId)

====
